---- MODULE Spec2Model ----
(***************************************************************************)
(* A model of the aws-emr-launch constructs:                               *)
(*   emr_constructs/emr_code.py : Code, EmrCode, EmrBootstrapAction,       *)
(*                                EmrStep                                  *)
(*   lambdas/emr_utilities.py   : StepFunctionLambdas,                     *)
(*                                LaunchEMRConfigLambda                    *)
(* Python objects live in heaps (sequences indexed by reference); the CDK  *)
(* construct tree is the sequence of constructs created so far.            *)
(***************************************************************************)
EXTENDS Integers, Sequences, FiniteSets, TLC

VARIABLES
    constructs,   \* the constructs created so far: [scope, id, kind, props]
    codes,        \* heap of EmrCode objects, indexed by reference
    codeFirst,    \* per EmrCode: the scope of the first bind_scope call, if any
    codeMade,     \* per EmrCode: the constructs its bind_scope calls created
    codeRets,     \* per EmrCode: its bind_scope calls, as [scope, ret] pairs
    step,         \* the EmrStep object, once constructed (<<>> before)
    stepCall,     \* the arguments its constructor was called with
    stepRets,     \* its bind_scope calls, as [scope, ret] pairs
    bootstrap,    \* the EmrBootstrapAction object, once constructed
    bootstrapCall,\* the arguments its constructor was called with
    bootstrapRets,\* its bind_scope calls, as [scope, ret] pairs
    fprops,       \* the FunctionProps object of the caller, once built: its
                  \* _values dict (<<>> before)
    fpropsOrig,   \* the _values the caller built it with
    launches,     \* the LaunchEMRConfigLambda constructions: [args, before, fn],
                  \* the arguments, the _values at the call, the construct
    sfls,         \* heap of StepFunctionLambdas objects
    stacks,       \* heap of EMRUtilitiesStack objects
    last          \* the operation performed last: [op, scope, made], made
                  \* being the number of constructs it created

codeVars == <<constructs, codes, codeFirst, codeMade, codeRets>>
stepVars == <<step, stepCall, stepRets>>
bootstrapVars == <<bootstrap, bootstrapCall, bootstrapRets>>
lambdaVars == <<fprops, fpropsOrig, launches, sfls, stacks>>
vars == <<codeVars, stepVars, bootstrapVars, lambdaVars, last>>

\* the record of an operation
Op(op, scope, made) == [op |-> op, scope |-> scope, made |-> made]

-----------------------------------------------------------------------------
(* Python values *)

\* Optional[T]: None, or a present value
None == <<>>
Some(x) == <<x>>
IsNone(o) == o = <<>>
Get(o) == o[1]

\* truth value of an Optional[str]: None and '' are falsy
TruthyStr(o) == ~IsNone(o) /\ Get(o) # ""

\* truth value of an Optional[List]: None and [] are falsy
TruthyList(o) == ~IsNone(o) /\ Get(o) # <<>>

\* str() of an Optional[str] as an f-string prints it
FormatStr(o) == IF IsNone(o) THEN "None" ELSE Get(o)

\* the decimal digit d as a string
Digit(d) == <<"0", "1", "2", "3", "4", "5", "6", "7", "8", "9">>[d + 1]

\* str(n) of an int
RECURSIVE IntStr(_)
IntStr(n) ==
    IF n < 0 THEN "-" \o IntStr(-n)
    ELSE IF n < 10 THEN Digit(n)
    ELSE IntStr(n \div 10) \o Digit(n % 10)

\* str(o) of an Optional[int]
OptIntStr(o) == IF IsNone(o) THEN "None" ELSE IntStr(Get(o))

\* str(o) of an Optional[bool]
OptBoolStr(o) == IF IsNone(o) THEN "None" ELSE IF Get(o) THEN "True" ELSE "False"

\* a dict: a function from its keys; the empty dict
EmptyDict == [k \in {} |-> ""]

\* dict(a, **b): the keys of both, b's value where both have the key
DictMerge(a, b) ==
    [k \in DOMAIN a \cup DOMAIN b |-> IF k \in DOMAIN b THEN b[k] ELSE a[k]]

\* d.get(key, default)
DictGet(d, key, default) == IF key \in DOMAIN d THEN d[key] ELSE default

\* d[key] = value
DictSet(d, key, value) ==
    [k \in DOMAIN d \cup {key} |-> IF k = key THEN value ELSE d[k]]

\* JSON values: strings, ints, booleans, and dicts as lists of items
JStr(x) == [t |-> "str", s |-> x]
JInt(x) == [t |-> "int", n |-> x]
JBool(x) == [t |-> "bool", b |-> x]
JDict(items) == [t |-> "dict", items |-> items]
JItem(k, v) == [k |-> k, v |-> v]

\* json.dumps(v), with its default separators
RECURSIVE JsonDumps(_)
JsonDumps(v) ==
    LET Items[i \in 0..Len(v.items)] ==
            IF i = 0 THEN ""
            ELSE Items[i - 1] \o (IF i > 1 THEN ", " ELSE "")
                    \o "\"" \o v.items[i].k \o "\": " \o JsonDumps(v.items[i].v)
    IN  CASE v.t = "str" -> "\"" \o v.s \o "\""
          [] v.t = "int" -> IntStr(v.n)
          [] v.t = "bool" -> (IF v.b THEN "true" ELSE "false")
          [] v.t = "dict" -> "{" \o Items[Len(v.items)] \o "}"

-----------------------------------------------------------------------------
(* Bounds and input domains *)

\* the most EmrCode objects a specification allocates: where one object is
\* followed through its calls, and where several objects meet in a scope
MaxCodes == 1
MaxScopeCodes == 2

Scopes == {"stackA", "stackB"}
Paths == {"./job"}
Buckets == {[bucket_name |-> "b1"], [bucket_name |-> "b2"]}
Prefixes == {None, Some("jobs")}
CodeIds == {None, Some(""), Some("a")}

\* s3_deployment.Source.asset(path)
SourceAsset(path) == [asset |-> path]

\* s3_deployment.BucketDeploymentProps(...)._values
BucketDeploymentProps(sources, bucket, prefix) ==
    [sources |-> sources,
     destination_bucket |-> bucket,
     destination_key_prefix |-> prefix]

DeploymentPropsInputs ==
    {BucketDeploymentProps(<<SourceAsset(p)>>, b, k) :
        p \in Paths, b \in Buckets, k \in Prefixes}

-----------------------------------------------------------------------------
(* emr_code.py: EmrCode *)

\* EmrCode.__init__: the new object
EmrCode(deployment_props, id) ==
    [_deployment_props |-> deployment_props,
     _deployment_bucket |-> deployment_props.destination_bucket,
     _deployment_prefix |-> deployment_props.destination_key_prefix,
     _id |-> id,
     _bucket_deployment |-> None]

\* (mutant) the path read off the deployment, which exists only once bound
s3_path_OfDeployment(self) ==
    IF IsNone(self._bucket_deployment)
        THEN "s3://None/None"
        ELSE "s3://" \o self._deployment_bucket.bucket_name \o "/"
                     \o FormatStr(self._deployment_prefix)

\* EmrCode.s3_path
s3_path(self) ==
    "s3://" \o self._deployment_bucket.bucket_name \o "/"
            \o FormatStr(self._deployment_prefix)

\* the construct id EmrCode.bind_scope asks for
DeploymentId(self) ==
    IF TruthyStr(self._id)
        THEN "BucketDeployment_" \o Get(self._id)
        ELSE "BucketDeployment"

\* s3_deployment.BucketDeployment(scope, id, **props): the new construct
BucketDeployment(scope, id, props) ==
    [scope |-> scope, id |-> id, kind |-> "BucketDeployment", props |-> props]

\* (mutant) the guard dropped: every call creates a deployment
NeedsDeployment_Always(self) == TRUE

\* whether EmrCode.bind_scope creates the deployment
NeedsDeployment(self) == IsNone(self._bucket_deployment)

\* the mapping EmrCode.bind_scope returns
CodeMapping(self) == [S3Path |-> s3_path(self)]

\* allocation of a new EmrCode object
NewCode(obj) ==
    /\ codes' = Append(codes, obj)
    /\ codeFirst' = Append(codeFirst, None)
    /\ codeMade' = Append(codeMade, <<>>)
    /\ codeRets' = Append(codeRets, {})
    /\ last' = Op("EmrCode", "", 0)
    /\ UNCHANGED <<constructs, stepVars, bootstrapVars, lambdaVars>>

\* EmrCode(deployment_props, id)
EmrCode_init(deployment_props, id) == NewCode(EmrCode(deployment_props, id))

\* Code.from_path(path, deployment_bucket, deployment_prefix)
Code_from_path(path, deployment_bucket, deployment_prefix) ==
    NewCode(EmrCode(BucketDeploymentProps(<<SourceAsset(path)>>,
                                          deployment_bucket,
                                          deployment_prefix), None))

\* Code.from_props(deployment_props)
Code_from_props(deployment_props) == NewCode(EmrCode(deployment_props, None))

\* EmrCode.bind_scope(scope), on the object with reference c: its effect on
\* the EmrCode heap and the construct tree
BindCode(c, scope) ==
    LET self == codes[c]
        create == NeedsDeployment(self)
        h == Len(constructs) + 1
        after == IF create
                    THEN [self EXCEPT !._bucket_deployment = Some(h)]
                    ELSE self
    IN  /\ constructs' =
            IF create
                THEN Append(constructs,
                            BucketDeployment(scope, DeploymentId(self),
                                             self._deployment_props))
                ELSE constructs
        /\ codes' = [codes EXCEPT ![c] = after]
        /\ codeFirst' = [codeFirst EXCEPT
                            ![c] = IF IsNone(@) THEN Some(scope) ELSE @]
        /\ codeMade' = [codeMade EXCEPT
                            ![c] = IF create THEN Append(@, h) ELSE @]
        /\ codeRets' = [codeRets EXCEPT
                            ![c] = @ \cup {[scope |-> scope,
                                            ret |-> CodeMapping(after)]}]

\* a direct call of EmrCode.bind_scope(scope)
EmrCode_bind_scope(c, scope) ==
    /\ BindCode(c, scope)
    /\ last' = Op("EmrCode.bind_scope", scope, Len(constructs') - Len(constructs))
    /\ UNCHANGED <<stepVars, bootstrapVars, lambdaVars>>

-----------------------------------------------------------------------------
(* emr_code.py: StepFailureAction, EmrBootstrapAction, EmrStep *)

\* enum StepFailureAction: its members, each with a name and a value
StepFailureAction ==
    {[name |-> "TERMINATE_JOB_FLOW", value |-> "TERMINATE_JOB_FLOW"],
     [name |-> "TERMINATE_CLUSTER", value |-> "TERMINATE_CLUSTER"],
     [name |-> "CANCEL_AND_WAIT", value |-> "CANCEL_AND_WAIT"],
     [name |-> "CONTINUE", value |-> "CONTINUE"]}

\* StepFailureAction.CONTINUE
StepFailureAction_CONTINUE == [name |-> "CONTINUE", value |-> "CONTINUE"]

\* a keyword argument left out takes the parameter's default
Default(arg, d) == IF IsNone(arg) THEN d ELSE Get(arg)

\* `x if x else []` on an Optional[List]
ListOrEmpty(o) == IF TruthyList(o) THEN Get(o) ELSE <<>>

\* EmrBootstrapAction.__init__: the new object
EmrBootstrapAction(name, path, args, code) ==
    [_name |-> name, _path |-> path, _args |-> args, _code |-> code]

\* (mutant) the script path taken from the name
BootstrapMapping_PathFromName(self) ==
    [Name |-> self._name,
     ScriptBootstrapAction |->
        [Path |-> self._name,
         Args |-> ListOrEmpty(self._args)]]

\* the mapping EmrBootstrapAction.bind_scope returns
BootstrapMapping(self) ==
    [Name |-> self._name,
     ScriptBootstrapAction |->
        [Path |-> self._path,
         Args |-> ListOrEmpty(self._args)]]

\* EmrStep.__init__: the new object; action_on_failure is None when the
\* caller leaves the keyword out
EmrStep(name, jar, main_class, args, action_on_failure, properties, code) ==
    [_name |-> name,
     _jar |-> jar,
     _main_class |-> main_class,
     _args |-> args,
     _action_on_failure |-> Default(action_on_failure, StepFailureAction_CONTINUE),
     _properties |-> properties,
     _code |-> code]

\* (mutant) Properties filled from the arguments
StepMapping_PropertiesFromArgs(self) ==
    [Name |-> self._name,
     ActionOnFailure |-> self._action_on_failure.name,
     HadoopJarStep |->
        [Jar |-> self._jar,
         MainClass |-> self._main_class,
         Args |-> ListOrEmpty(self._args),
         Properties |-> ListOrEmpty(self._args)]]

\* the mapping EmrStep.bind_scope returns
StepMapping(self) ==
    [Name |-> self._name,
     ActionOnFailure |-> self._action_on_failure.name,
     HadoopJarStep |->
        [Jar |-> self._jar,
         MainClass |-> self._main_class,
         Args |-> ListOrEmpty(self._args),
         Properties |-> ListOrEmpty(self._properties)]]

\* (mutant) the code is never bound
BindOwnCode_Never(self, scope) == UNCHANGED codeVars

\* `if self._code is not None: self._code.bind_scope(scope)`
BindOwnCode(self, scope) ==
    IF ~IsNone(self._code)
        THEN BindCode(Get(self._code), scope)
        ELSE UNCHANGED codeVars

\* EmrBootstrapAction(name, path, args, code)
EmrBootstrapAction_init(name, path, args, code) ==
    /\ bootstrap = <<>>
    /\ bootstrap' = <<EmrBootstrapAction(name, path, args, code)>>
    /\ bootstrapCall' = <<[name |-> name, path |-> path, args |-> args,
                           code |-> code]>>
    /\ last' = Op("EmrBootstrapAction", "", 0)
    /\ UNCHANGED <<bootstrapRets, codeVars, stepVars, lambdaVars>>

\* EmrBootstrapAction.bind_scope(scope)
EmrBootstrapAction_bind_scope(scope) ==
    /\ bootstrap # <<>>
    /\ BindOwnCode(bootstrap[1], scope)
    /\ bootstrapRets' = bootstrapRets \cup
                            {[scope |-> scope, ret |-> BootstrapMapping(bootstrap[1])]}
    /\ last' = Op("EmrBootstrapAction.bind_scope", scope,
                  Len(constructs') - Len(constructs))
    /\ UNCHANGED <<bootstrap, bootstrapCall, stepVars, lambdaVars>>

\* EmrStep(name, jar, main_class, args, action_on_failure, properties, code)
EmrStep_init(name, jar, main_class, args, action_on_failure, properties, code) ==
    /\ step = <<>>
    /\ step' = <<EmrStep(name, jar, main_class, args, action_on_failure,
                         properties, code)>>
    /\ stepCall' = <<[name |-> name, jar |-> jar, main_class |-> main_class,
                      args |-> args, action_on_failure |-> action_on_failure,
                      properties |-> properties, code |-> code]>>
    /\ last' = Op("EmrStep", "", 0)
    /\ UNCHANGED <<stepRets, codeVars, bootstrapVars, lambdaVars>>

\* EmrStep.bind_scope(scope)
EmrStep_bind_scope(scope) ==
    /\ step # <<>>
    /\ BindOwnCode(step[1], scope)
    /\ stepRets' = stepRets \cup {[scope |-> scope, ret |-> StepMapping(step[1])]}
    /\ last' = Op("EmrStep.bind_scope", scope, Len(constructs') - Len(constructs))
    /\ UNCHANGED <<step, stepCall, bootstrapVars, lambdaVars>>

-----------------------------------------------------------------------------
(* emr_utilities.py: constructs *)

\* a construct as the scope of its children: a reference to it
Ref(h) == "#" \o IntStr(h)

\* aws_lambda.Function(scope, id, **props): the new construct
Function(scope, id, props) ==
    [scope |-> scope, id |-> id, kind |-> "Function", props |-> props]

\* aws_lambda.Code.asset(_lambda_path(path))
LambdaAsset(path) == [asset |-> path]

\* iam.PolicyStatement(effect=..., actions=..., resources=...)
PolicyStatement(effect, actions, resources) ==
    [effect |-> effect, actions |-> actions, resources |-> resources]

\* the props common to the three functions of StepFunctionLambdas
StepFunctionProps(code, handler, actions) ==
    [code |-> code,
     handler |-> handler,
     runtime |-> "python3.7",
     timeout |-> [minutes |-> 5],
     initial_policy |-> <<PolicyStatement("Allow", actions, <<"*">>)>>]

\* self._run_job_flow = aws_lambda.Function(...)
RunJobFlowFunction(self, code) ==
    Function(self, "StepFunctionLambdas_AddJobFlow",
             StepFunctionProps(code, "run_job_flow.handler",
                               <<"elasticmapreduce:RunJobFlow",
                                 "elasticmapreduce:ListClusters",
                                 "elasticmapreduce:ListSteps">>))

\* (mutant) the statement of run_job_flow copied to add_job_flow_steps
AddJobFlowStepsFunction_Copied(self, code) ==
    Function(self, "StepFunctionLambdas_AddJobFlowSteps",
             StepFunctionProps(code, "add_job_flow_steps.handler",
                               <<"elasticmapreduce:RunJobFlow",
                                 "elasticmapreduce:AddJobFlowSteps">>))

\* self._add_job_flow_steps = aws_lambda.Function(...)
AddJobFlowStepsFunction(self, code) ==
    Function(self, "StepFunctionLambdas_AddJobFlowSteps",
             StepFunctionProps(code, "add_job_flow_steps.handler",
                               <<"elasticmapreduce:AddJobFlowSteps">>))

\* self._check_step_status = aws_lambda.Function(...)
CheckStepStatusFunction(self, code) ==
    Function(self, "StepFunctionLambdas_CheckStepStatus",
             StepFunctionProps(code, "check_step_status.handler",
                               <<"elasticmapreduce:DescribeCluster",
                                 "elasticmapreduce:DescribeStep",
                                 "cloudwatch:PutMetricData">>))

\* StepFunctionLambdas.__init__(scope, id): the tree after it, from `tree`
StepFunctionLambdasTree(tree, scope, id) ==
    LET self == Ref(Len(tree) + 1)
        code == LambdaAsset("emr_utilities")
    IN  tree \o <<[scope |-> scope, id |-> id, kind |-> "StepFunctionLambdas",
                   props |-> EmptyDict],
                  RunJobFlowFunction(self, code),
                  AddJobFlowStepsFunction(self, code),
                  CheckStepStatusFunction(self, code)>>

\* StepFunctionLambdas.__init__(scope, id): the new object, built on `tree`;
\* its properties run_job_flow, add_job_flow_steps and check_step_status
\* return these fields
StepFunctionLambdas(tree) ==
    [node |-> Len(tree) + 1,
     _run_job_flow |-> Len(tree) + 2,
     _add_job_flow_steps |-> Len(tree) + 3,
     _check_step_status |-> Len(tree) + 4]

\* StepFunctionLambdas(scope, id)
StepFunctionLambdas_init(scope, id) ==
    /\ constructs' = StepFunctionLambdasTree(constructs, scope, id)
    /\ sfls' = Append(sfls, StepFunctionLambdas(constructs))
    /\ last' = Op("StepFunctionLambdas", scope, Len(constructs') - Len(constructs))
    /\ UNCHANGED <<codes, codeFirst, codeMade, codeRets, stepVars, bootstrapVars,
                   fprops, fpropsOrig, launches, stacks>>

\* EMRUtilitiesStack(props): the stack, its StepFunctionLambdas and its layer
EMRUtilitiesStack_init(stack_props) ==
    LET h == Len(constructs) + 1
        withStack == Append(constructs,
                            [scope |-> "", id |-> "", kind |-> "Stack",
                             props |-> stack_props])
        withLambdas == StepFunctionLambdasTree(
                            withStack, Ref(h), "EMRUtilitiesStack_StepFunctionLambdas")
        layer == [scope |-> Ref(h),
                  id |-> "EMRUtilitiesStack_EMRConfigUtilsLayer",
                  kind |-> "LayerVersion",
                  props |-> [code |-> LambdaAsset("layers/emr_config_utils"),
                             compatible_runtimes |->
                                <<[name |-> "python3.7",
                                   supports_inline_code |-> TRUE]>>,
                             description |-> ""]]
    IN  /\ constructs' = Append(withLambdas, layer)
        /\ sfls' = Append(sfls, StepFunctionLambdas(withStack))
        /\ stacks' = Append(stacks,
                            [node |-> h,
                             _step_function_lambdas |-> Len(sfls) + 1,
                             _emr_config_utils_layer |-> Len(withLambdas) + 1])
        /\ last' = Op("EMRUtilitiesStack", "", Len(constructs') - Len(constructs))
        /\ UNCHANGED <<codes, codeFirst, codeMade, codeRets, stepVars,
                       bootstrapVars, fprops, fpropsOrig, launches>>

-----------------------------------------------------------------------------
(* emr_utilities.py: LaunchEMRConfigLambda *)

\* the default of step_function_wait_time
DefaultWaitTime == 60

\* the `environment` dict of the constructor: the four base keys, and a
\* topic key for each topic given
LaunchEnvironment(step_function, cluster_config, step_function_wait_time, fail_if_job_running, success_topic, failure_topic) ==
    LET base == [DEFAULT_STEP_FUNCTION_ARN |-> step_function.state_machine_arn,
                 DEFAULT_CLUSTER_CONFIG |-> JsonDumps(cluster_config),
                 DEFAULT_STEP_FUNCTION_WAIT_TIME |-> OptIntStr(step_function_wait_time),
                 DEFAULT_FAIL_IF_JOB_RUNNING |-> OptBoolStr(fail_if_job_running)]
        withSuccess ==
            IF ~IsNone(success_topic)
                THEN DictSet(base, "DEFAULT_SUCCESS_TOPIC_ARN",
                             Get(success_topic).topic_arn)
                ELSE base
    IN  IF ~IsNone(failure_topic)
            THEN DictSet(withSuccess, "DEFAULT_FAILURE_TOPIC_ARN",
                         Get(failure_topic).topic_arn)
            ELSE withSuccess

\* (mutant) the merge the other way round: props' environment wins
FunctionEnvironment_PropsWin(function_props, environment) ==
    DictMerge(environment, DictGet(function_props, "environment", EmptyDict))

\* dict(function_props.get('environment', {}), **environment)
FunctionEnvironment(function_props, environment) ==
    DictMerge(DictGet(function_props, "environment", EmptyDict), environment)

\* aws_lambda.FunctionProps(...): the caller's props object
FunctionProps_init(values) ==
    /\ fprops = <<>>
    /\ fprops' = <<values>>
    /\ fpropsOrig' = <<values>>
    /\ last' = Op("FunctionProps", "", 0)
    /\ UNCHANGED <<codeVars, stepVars, bootstrapVars, launches, sfls, stacks>>

\* LaunchEMRConfigLambda(scope, id, props=..., step_function=..., ...): a
\* keyword left out is None here and takes its default; function_props is
\* the _values dict of props itself, so the assignment to its 'environment'
\* key is an assignment to props
LaunchEMRConfigLambda_init(scope, id, step_function, cluster_config, step_function_wait_time, fail_if_job_running, success_topic, failure_topic) ==
    LET wait == Default(step_function_wait_time, Some(DefaultWaitTime))
        fail == Default(fail_if_job_running, Some(FALSE))
        environment == LaunchEnvironment(step_function, cluster_config, wait,
                                         fail, success_topic, failure_topic)
        function_props == DictSet(fprops[1], "environment",
                                  FunctionEnvironment(fprops[1], environment))
    IN  /\ fprops # <<>>
        /\ fprops' = <<function_props>>
        /\ constructs' = Append(constructs, Function(scope, id, function_props))
        /\ launches' = Append(launches,
                [args |-> [step_function |-> step_function,
                           cluster_config |-> cluster_config,
                           step_function_wait_time |-> wait,
                           fail_if_job_running |-> fail,
                           success_topic |-> success_topic,
                           failure_topic |-> failure_topic],
                 before |-> fprops[1],
                 fn |-> Len(constructs) + 1])
        /\ last' = Op("LaunchEMRConfigLambda", scope, 1)
        /\ UNCHANGED <<codes, codeFirst, codeMade, codeRets, stepVars,
                       bootstrapVars, fpropsOrig, sfls, stacks>>

-----
(* Specification of the EmrCode objects *)

Init ==
    /\ constructs = <<>>
    /\ codes = <<>>
    /\ codeFirst = <<>>
    /\ codeMade = <<>>
    /\ codeRets = <<>>
    /\ step = <<>>
    /\ stepCall = <<>>
    /\ stepRets = {}
    /\ bootstrap = <<>>
    /\ bootstrapCall = <<>>
    /\ bootstrapRets = {}
    /\ fprops = <<>>
    /\ fpropsOrig = <<>>
    /\ launches = <<>>
    /\ sfls = <<>>
    /\ stacks = <<>>
    /\ last = Op("", "", 0)

NextCode ==
    \/ /\ Len(codes) < MaxCodes
       /\ \E p \in DeploymentPropsInputs, id \in CodeIds : EmrCode_init(p, id)
    \/ /\ Len(codes) < MaxCodes
       /\ \E path \in Paths, b \in Buckets, k \in Prefixes :
             Code_from_path(path, b, k)
    \/ /\ Len(codes) < MaxCodes
       /\ \E p \in DeploymentPropsInputs : Code_from_props(p)
    \/ \E c \in 1..Len(codes), s \in Scopes : EmrCode_bind_scope(c, s)

SpecCode == Init /\ [][NextCode]_vars

(* Specification of several EmrCode objects bound into the same scopes *)

NextScope ==
    \/ /\ Len(codes) < MaxScopeCodes
       /\ \E p \in DeploymentPropsInputs, id \in CodeIds : EmrCode_init(p, id)
    \/ /\ Len(codes) < MaxScopeCodes
       /\ \E path \in Paths, b \in Buckets, k \in Prefixes :
             Code_from_path(path, b, k)
    \/ /\ Len(codes) < MaxScopeCodes
       /\ \E p \in DeploymentPropsInputs : Code_from_props(p)
    \/ \E c \in 1..Len(codes), s \in Scopes : EmrCode_bind_scope(c, s)

SpecScope == Init /\ [][NextScope]_vars

-----------------------------------------------------------------------------
(* Input domains of the step and bootstrap-action constructors *)

Names == {"n"}
Jars == {"command-runner.jar"}
ScriptPaths == {"s3://b1/jobs/install.sh"}
MainClasses == {None, Some("Main")}
ArgLists == {None, Some(<<>>), Some(<<"--x", "1">>)}
PropertyLists == {None, Some(<<>>), Some(<<[Key |-> "k", Value |-> "v"]>>)}
FailureActionArgs == {None} \cup {Some(a) : a \in StepFailureAction}

\* one deployment, as the callers that only need some code use
OneDeployment ==
    BucketDeploymentProps(<<SourceAsset("./job")>>, [bucket_name |-> "b1"],
                          Some("jobs"))

\* a code argument: None, or a reference to an EmrCode object
CodeArgs == {None} \cup {Some(c) : c \in 1..Len(codes)}

-----------------------------------------------------------------------------
(* Specification of binding: EmrCode objects bound directly and through  *)
(* one EmrStep and one EmrBootstrapAction                                 *)

NextBind ==
    \/ Len(codes) < MaxCodes /\ EmrCode_init(OneDeployment, Some("a"))
    \/ Len(codes) < MaxCodes /\ Code_from_props(OneDeployment)
    \/ \E c \in 1..Len(codes), s \in Scopes : EmrCode_bind_scope(c, s)
    \/ \E code \in CodeArgs :
          EmrStep_init("n", "command-runner.jar", None, None, None, None, code)
    \/ \E s \in Scopes : EmrStep_bind_scope(s)
    \/ \E code \in CodeArgs :
          EmrBootstrapAction_init("n", "s3://b1/jobs/install.sh", None, code)
    \/ \E s \in Scopes : EmrBootstrapAction_bind_scope(s)

SpecBind == Init /\ [][NextBind]_vars

(* Specification of one EmrStep over all its constructor arguments *)

NextStep ==
    \/ Len(codes) < MaxCodes /\ Code_from_props(OneDeployment)
    \/ \E c \in 1..Len(codes), s \in Scopes : EmrCode_bind_scope(c, s)
    \/ \E name \in Names, jar \in Jars, main_class \in MainClasses,
          args \in ArgLists, action_on_failure \in FailureActionArgs,
          properties \in PropertyLists, code \in CodeArgs :
          EmrStep_init(name, jar, main_class, args, action_on_failure,
                       properties, code)
    \/ \E s \in Scopes : EmrStep_bind_scope(s)

SpecStep == Init /\ [][NextStep]_vars

(* Specification of one EmrBootstrapAction over all its constructor       *)
(* arguments                                                              *)

NextBootstrap ==
    \/ Len(codes) < MaxCodes /\ Code_from_props(OneDeployment)
    \/ \E c \in 1..Len(codes), s \in Scopes : EmrCode_bind_scope(c, s)
    \/ \E name \in {"n", "m"}, path \in ScriptPaths, args \in ArgLists,
          code \in CodeArgs :
          EmrBootstrapAction_init(name, path, args, code)
    \/ \E s \in Scopes : EmrBootstrapAction_bind_scope(s)

SpecBootstrap == Init /\ [][NextBootstrap]_vars

-----------------------------------------------------------------------------
(* Specification of the step-function lambdas and the utilities stack *)

\* the most StepFunctionLambdas objects built
MaxLambdaSets == 3

ConstructIds == {"Lambdas", "Utilities"}
StackPropsInputs == {EmptyDict, [stack_name |-> "emr-utilities"]}

NextStack ==
    \/ /\ Len(sfls) < MaxLambdaSets
       /\ \E scope \in Scopes, id \in ConstructIds :
             StepFunctionLambdas_init(scope, id)
    \/ /\ Len(sfls) < MaxLambdaSets
       /\ \E stack_props \in StackPropsInputs : EMRUtilitiesStack_init(stack_props)

SpecStack == Init /\ [][NextStack]_vars

-----------------------------------------------------------------------------
(* Specification of LaunchEMRConfigLambda built from one props object *)

\* the most LaunchEMRConfigLambda constructions
MaxLaunches == 2

StateMachines == {[state_machine_arn |-> "arn:aws:states:::stateMachine:launch"]}
Topics == {[topic_arn |-> "arn:aws:sns:::ok"], [topic_arn |-> "arn:aws:sns:::failed"]}
ClusterConfigs ==
    {JDict(<<>>),
     JDict(<<JItem("Name", JStr("c1")),
             JItem("Instances", JDict(<<JItem("Count", JInt(12)),
                                        JItem("KeepAlive", JBool(FALSE))>>))>>)}
WaitTimeArgs == {None, Some(Some(5))}
FailArgs == {None, Some(Some(TRUE))}
SuccessTopicArgs == {None} \cup {Some(t) : t \in Topics}
FailureTopicArgs == {None, Some([topic_arn |-> "arn:aws:sns:::failed"])}

\* the _values of the caller's props: without an environment, and with one
\* that holds a key of the caller's own and a stale base key
PlainFunctionProps ==
    {[handler |-> "launch.handler"],
     [handler |-> "launch.handler",
      environment |-> [LOG_LEVEL |-> "debug", DEFAULT_CLUSTER_CONFIG |-> "{stale}"]]}

\* the same, and an environment that holds a topic key
FunctionPropsInputs ==
    PlainFunctionProps \cup
    {[handler |-> "launch.handler",
      environment |-> [DEFAULT_SUCCESS_TOPIC_ARN |-> "arn:aws:sns:::other"]]}

Launch ==
    /\ Len(launches) < MaxLaunches
    /\ \E sm \in StateMachines, config \in ClusterConfigs, wait \in WaitTimeArgs,
          fail \in FailArgs, success \in SuccessTopicArgs,
          failure \in FailureTopicArgs :
          LaunchEMRConfigLambda_init("stackA", "Launch" \o IntStr(Len(launches) + 1),
                                     sm, config, wait, fail, success, failure)

\* props built without a topic key in their environment
NextLambda ==
    \/ \E values \in PlainFunctionProps : FunctionProps_init(values)
    \/ Launch

SpecLambda == Init /\ [][NextLambda]_vars

\* props built with any environment
NextLambdaEnv ==
    \/ \E values \in FunctionPropsInputs : FunctionProps_init(values)
    \/ Launch

SpecLambdaEnv == Init /\ [][NextLambdaEnv]_vars

-----------------------------------------------------------------------------
(* Properties of emr_code.py *)

\* the BucketDeployment constructs of the tree
Deployments == {h \in 1..Len(constructs) : constructs[h].kind = "BucketDeployment"}

\* the scopes an EmrCode object's bind_scope has been called with
CalledScopes(c) == {r.scope : r \in codeRets[c]}

\* C1: for every EmrCode object, whatever calls of bind_scope reach it
\* (direct, through the EmrStep, through the EmrBootstrapAction, in one or
\* several scopes), at most one BucketDeployment is created for it: none
\* before the first call; after it exactly one, which sits in the scope of
\* the first call, carries the object's deployment props and is the one the
\* object retains; and the tree holds no other deployment.
C1_DeploymentAtMostOnce ==
    /\ \A c \in 1..Len(codes) :
          IF IsNone(codeFirst[c])
              THEN /\ codeMade[c] = <<>>
                   /\ IsNone(codes[c]._bucket_deployment)
              ELSE /\ Len(codeMade[c]) = 1
                   /\ codes[c]._bucket_deployment = Some(codeMade[c][1])
                   /\ codeMade[c][1] \in Deployments
                   /\ constructs[codeMade[c][1]].scope = Get(codeFirst[c])
                   /\ constructs[codeMade[c][1]].props = codes[c]._deployment_props
    /\ Cardinality(Deployments) =
          Cardinality({c \in 1..Len(codes) : ~IsNone(codeFirst[c])})

\* C1 witness: one EmrCode object held by the step and by the bootstrap
\* action, bound through both and in both scopes, with its one deployment.
C1_Witness ==
    \E c \in 1..Len(codes) :
        /\ step # <<>> /\ step[1]._code = Some(c) /\ stepRets # {}
        /\ bootstrap # <<>> /\ bootstrap[1]._code = Some(c) /\ bootstrapRets # {}
        /\ CalledScopes(c) = Scopes
        /\ Len(codeMade[c]) = 1

\* the path string 's3://<bucket name>/<key prefix>' of deployment props,
\* the prefix printed as Python prints it
BucketUri(props) ==
    "s3://" \o props.destination_bucket.bucket_name \o "/"
            \o (IF props.destination_key_prefix = None
                   THEN "None"
                   ELSE props.destination_key_prefix[1])

C10_DeploymentIdsDistinct ==
    \A i, j \in Deployments :
        (i # j /\ constructs[i].scope = constructs[j].scope)
            => constructs[i].id # constructs[j].id

\* the constructor arguments of the step, when it was built
StepArgs == stepCall[1]

\* C5: every mapping EmrStep.bind_scope returns has exactly the keys Name,
\* ActionOnFailure and HadoopJarStep, the latter exactly Jar, MainClass,
\* Args and Properties; ActionOnFailure is one of the four EMR strings, the
\* one named by the constructor argument and CONTINUE when none was given;
\* Args and Properties are the given list, or the empty list for None or an
\* empty one; all of it fixed by the constructor arguments, whatever the
\* scope and however often it is called.
C5_StepMapping ==
    \A r \in stepRets :
        /\ DOMAIN r.ret = {"Name", "ActionOnFailure", "HadoopJarStep"}
        /\ DOMAIN r.ret.HadoopJarStep = {"Jar", "MainClass", "Args", "Properties"}
        /\ r.ret.Name = StepArgs.name
        /\ r.ret.ActionOnFailure \in
              {"TERMINATE_JOB_FLOW", "TERMINATE_CLUSTER", "CANCEL_AND_WAIT", "CONTINUE"}
        /\ r.ret.ActionOnFailure =
              IF StepArgs.action_on_failure = None
                  THEN "CONTINUE"
                  ELSE StepArgs.action_on_failure[1].value
        /\ r.ret.HadoopJarStep.Jar = StepArgs.jar
        /\ r.ret.HadoopJarStep.MainClass = StepArgs.main_class
        /\ r.ret.HadoopJarStep.Args =
              IF StepArgs.args = None THEN <<>> ELSE StepArgs.args[1]
        /\ r.ret.HadoopJarStep.Properties =
              IF StepArgs.properties = None THEN <<>> ELSE StepArgs.properties[1]

\* C5 witness: a step built with arguments, without properties and without
\* action_on_failure, bound in both scopes.
C5_Witness ==
    /\ step # <<>>
    /\ StepArgs.args = Some(<<"--x", "1">>)
    /\ StepArgs.properties = None
    /\ StepArgs.action_on_failure = None
    /\ {r.scope : r \in stepRets} = Scopes

\* the constructor arguments of the bootstrap action, when it was built
BootstrapArgs == bootstrapCall[1]

\* C6: every mapping EmrBootstrapAction.bind_scope returns has exactly the
\* keys Name and ScriptBootstrapAction, the latter exactly Path and Args;
\* Name and Path are the constructor's, Args the given list or the empty
\* list for None or an empty one; whatever the scope and however often it
\* is called, and the object's fields stay as constructed.
C6_BootstrapMapping ==
    /\ \A r \in bootstrapRets :
          /\ DOMAIN r.ret = {"Name", "ScriptBootstrapAction"}
          /\ DOMAIN r.ret.ScriptBootstrapAction = {"Path", "Args"}
          /\ r.ret.Name = BootstrapArgs.name
          /\ r.ret.ScriptBootstrapAction.Path = BootstrapArgs.path
          /\ r.ret.ScriptBootstrapAction.Args =
                IF BootstrapArgs.args = None THEN <<>> ELSE BootstrapArgs.args[1]
    /\ bootstrap # <<>> =>
          /\ bootstrap[1]._name = BootstrapArgs.name
          /\ bootstrap[1]._path = BootstrapArgs.path
          /\ bootstrap[1]._args = BootstrapArgs.args
          /\ bootstrap[1]._code = BootstrapArgs.code

\* C6 witness: a bootstrap action built with arguments and a code, bound in
\* both scopes.
C6_Witness ==
    /\ bootstrap # <<>>
    /\ BootstrapArgs.args = Some(<<"--x", "1">>)
    /\ BootstrapArgs.code # None
    /\ {r.scope : r \in bootstrapRets} = Scopes

\* what C8 says of a bind_scope call of an object holding `code`, made in
\* `scope`: with a code, the call reached the code in that scope and the
\* code's deployment exists when it returns; without one, the call created
\* no construct.
BoundBeforeReturn(code, scope, made) ==
    IF code = None
        THEN made = 0
        ELSE /\ scope \in CalledScopes(code[1])
             /\ codes[code[1]]._bucket_deployment # None
             /\ codes[code[1]]._bucket_deployment[1] \in Deployments

\* C8: when EmrStep.bind_scope or EmrBootstrapAction.bind_scope returns, the
\* code given at construction has been bound into the call's scope and its
\* BucketDeployment exists; an object built without a code creates no
\* construct, in any call.
C8_CodeBoundBeforeMapping ==
    /\ last.op = "EmrStep.bind_scope" =>
          BoundBeforeReturn(step[1]._code, last.scope, last.made)
    /\ last.op = "EmrBootstrapAction.bind_scope" =>
          BoundBeforeReturn(bootstrap[1]._code, last.scope, last.made)
    /\ stepRets # {} /\ step[1]._code # None =>
          codes[step[1]._code[1]]._bucket_deployment # None
    /\ bootstrapRets # {} /\ bootstrap[1]._code # None =>
          codes[bootstrap[1]._code[1]]._bucket_deployment # None

\* C8 witness: the first bind_scope of a step with a code, which created
\* the code's deployment, while the bootstrap action (without a code) has
\* been bound too.
C8_Witness ==
    /\ last.op = "EmrStep.bind_scope"
    /\ last.made = 1
    /\ step[1]._code # None
    /\ Cardinality(stepRets) = 1
    /\ bootstrap # <<>> /\ bootstrap[1]._code = None /\ bootstrapRets # {}

-----------------------------------------------------------------------------
(* Properties of emr_utilities.py *)

\* the actions a function construct is granted, over all its statements
GrantedActions(h) ==
    UNION {{st.actions[i] : i \in 1..Len(st.actions)} :
             st \in {constructs[h].props.initial_policy[n] :
                        n \in 1..Len(constructs[h].props.initial_policy)}}

\* a function construct with one statement, an Allow
OneAllow(h) ==
    /\ constructs[h].kind = "Function"
    /\ Len(constructs[h].props.initial_policy) = 1
    /\ constructs[h].props.initial_policy[1].effect = "Allow"

\* C4: every StepFunctionLambdas declares exactly three functions, each
\* with one Allow statement: run_job_flow granted exactly RunJobFlow,
\* ListClusters and ListSteps, add_job_flow_steps exactly AddJobFlowSteps,
\* check_step_status exactly DescribeCluster, DescribeStep and
\* cloudwatch:PutMetricData; the three sets are pairwise disjoint, whatever
\* the scope and id of the construction.
C4_FixedActionLists ==
    \A n \in 1..Len(sfls) :
        LET o == sfls[n]
            run == o._run_job_flow
            add == o._add_job_flow_steps
            check == o._check_step_status
        IN  /\ {h \in 1..Len(constructs) : constructs[h].scope = Ref(o.node)}
                  = {run, add, check}
            /\ Cardinality({run, add, check}) = 3
            /\ OneAllow(run) /\ OneAllow(add) /\ OneAllow(check)
            /\ GrantedActions(run) = {"elasticmapreduce:RunJobFlow",
                                      "elasticmapreduce:ListClusters",
                                      "elasticmapreduce:ListSteps"}
            /\ GrantedActions(add) = {"elasticmapreduce:AddJobFlowSteps"}
            /\ GrantedActions(check) = {"elasticmapreduce:DescribeCluster",
                                        "elasticmapreduce:DescribeStep",
                                        "cloudwatch:PutMetricData"}
            /\ GrantedActions(run) \cap GrantedActions(add) = {}
            /\ GrantedActions(run) \cap GrantedActions(check) = {}
            /\ GrantedActions(add) \cap GrantedActions(check) = {}

\* C4 witness: a StepFunctionLambdas built directly and one built by an
\* EMRUtilitiesStack, in different scopes and with different ids.
C4_Witness ==
    /\ Len(stacks) >= 1
    /\ \E n \in 1..Len(sfls) :
          /\ constructs[sfls[n].node].scope = "stackB"
          /\ constructs[sfls[n].node].id = "Utilities"

\* the environment handed to the function of a construction
LaunchedEnv(l) == constructs[l.fn].props.environment

\* the environment of the props at the call of a construction
EnvBefore(l) ==
    IF "environment" \in DOMAIN l.before THEN l.before.environment ELSE EmptyDict

BaseKeys ==
    {"DEFAULT_STEP_FUNCTION_ARN", "DEFAULT_CLUSTER_CONFIG",
     "DEFAULT_STEP_FUNCTION_WAIT_TIME", "DEFAULT_FAIL_IF_JOB_RUNNING"}

\* the topic keys whose topic argument a construction was given
GivenTopicKeys(l) ==
    {k \in {"DEFAULT_SUCCESS_TOPIC_ARN"} : l.args.success_topic # None}
    \cup {k \in {"DEFAULT_FAILURE_TOPIC_ARN"} : l.args.failure_topic # None}

\* the four base keys are present, with the values computed from the
\* constructor arguments, whatever props' environment holds
BaseKeysComputed(l) ==
    /\ BaseKeys \subseteq DOMAIN LaunchedEnv(l)
    /\ LaunchedEnv(l).DEFAULT_STEP_FUNCTION_ARN = l.args.step_function.state_machine_arn
    /\ LaunchedEnv(l).DEFAULT_CLUSTER_CONFIG = JsonDumps(l.args.cluster_config)
    /\ LaunchedEnv(l).DEFAULT_STEP_FUNCTION_WAIT_TIME =
          OptIntStr(l.args.step_function_wait_time)
    /\ LaunchedEnv(l).DEFAULT_FAIL_IF_JOB_RUNNING =
          OptBoolStr(l.args.fail_if_job_running)

\* the keys of props' environment outside `overridden` are kept unchanged
KeptExcept(l, overridden) ==
    \A k \in DOMAIN EnvBefore(l) \ overridden :
        k \in DOMAIN LaunchedEnv(l) /\ LaunchedEnv(l)[k] = EnvBefore(l)[k]

\* C3 (as claimed): the base keys are computed from the arguments and
\* override props' environment, and every other key of props' environment
\* is kept unchanged.
C3_OtherKeysKept ==
    \A n \in 1..Len(launches) :
        BaseKeysComputed(launches[n]) /\ KeptExcept(launches[n], BaseKeys)

\* C3 (amended): the base keys are computed from the arguments and override
\* props' environment, and every other key of props' environment is kept
\* unchanged, except a topic key whose topic argument is given: that one
\* takes the topic's ARN.
C3_BaseKeysComputed ==
    \A n \in 1..Len(launches) :
        /\ BaseKeysComputed(launches[n])
        /\ KeptExcept(launches[n], BaseKeys \cup GivenTopicKeys(launches[n]))
        /\ launches[n].args.success_topic # None =>
              LaunchedEnv(launches[n]).DEFAULT_SUCCESS_TOPIC_ARN =
                  launches[n].args.success_topic[1].topic_arn
        /\ launches[n].args.failure_topic # None =>
              LaunchedEnv(launches[n]).DEFAULT_FAILURE_TOPIC_ARN =
                  launches[n].args.failure_topic[1].topic_arn

\* C3 witness: a construction from props whose environment holds a stale
\* base key and a key of the caller's own, and a construction with a
\* success topic from props whose environment holds that topic key.
C3_Witness ==
    /\ \E n \in 1..Len(launches) :
          /\ "LOG_LEVEL" \in DOMAIN EnvBefore(launches[n])
          /\ EnvBefore(launches[n]).DEFAULT_CLUSTER_CONFIG = "{stale}"
          /\ launches[n].args.cluster_config # JDict(<<>>)
    /\ \E n \in 1..Len(launches) :
          /\ "DEFAULT_SUCCESS_TOPIC_ARN" \in DOMAIN EnvBefore(launches[n])
          /\ launches[n].args.success_topic # None

\* C2 (as claimed): a topic key is in the function's environment only if
\* the topic argument of that construction was given, and then holds that
\* topic's ARN; each key on its own.
C2_TopicKeysOnlyIfGiven ==
    \A n \in 1..Len(launches) :
        /\ "DEFAULT_SUCCESS_TOPIC_ARN" \in DOMAIN LaunchedEnv(launches[n]) =>
              /\ launches[n].args.success_topic # None
              /\ LaunchedEnv(launches[n]).DEFAULT_SUCCESS_TOPIC_ARN =
                    launches[n].args.success_topic[1].topic_arn
        /\ "DEFAULT_FAILURE_TOPIC_ARN" \in DOMAIN LaunchedEnv(launches[n]) =>
              /\ launches[n].args.failure_topic # None
              /\ LaunchedEnv(launches[n]).DEFAULT_FAILURE_TOPIC_ARN =
                    launches[n].args.failure_topic[1].topic_arn

\* the environment of the props as the caller built them
EnvOrig ==
    IF "environment" \in DOMAIN fpropsOrig[1]
        THEN fpropsOrig[1].environment
        ELSE EmptyDict

\* C9 (as claimed): the environment of a construction holds only what stems
\* from its own arguments: each key is a base key, a topic key of a topic it
\* was given, or a key of the props as the caller built them, with the
\* caller's value.
C9_NoKeyOfEarlierConstruction ==
    \A n \in 1..Len(launches) :
        \A k \in DOMAIN LaunchedEnv(launches[n]) :
            \/ k \in BaseKeys \cup GivenTopicKeys(launches[n])
            \/ k \in DOMAIN EnvOrig /\ LaunchedEnv(launches[n])[k] = EnvOrig[k]

====
